---- MODULE Spec2Model ----
(***************************************************************************)
(* Model of main.py of pyAutoClick: find_image_and_click and              *)
(* verify_image_displayed, with the three outside services (window        *)
(* enumeration, image location on screen, mouse click) as nondeterministic *)
(* environment steps.                                                      *)
(*                                                                         *)
(* Time is counted in ticks of half a second, so that sleep(0.5) is one    *)
(* tick and sleep(1) is two, and a timeout of t seconds is 2*t ticks.      *)
(* The code reads the clock only as time.time() - start_time, so the model *)
(* keeps that difference, elapsed, for the loop that is running.           *)
(* A rectangle is the tuple <<left, top, width, height>>; Python's None    *)
(* is the empty tuple.                                                     *)
(***************************************************************************)
EXTENDS Integers, Sequences, FiniteSets, TLC

\* ------------------------------------------------------------- bounds
\* Largest timeout / verify_timeout argument tried, in seconds.
MaxTimeout == 2
MaxVerifyTimeout == 1
\* Longest time, in ticks, one call of the locate service may take.
MaxCallTime == 1

\* ------------------------------------------------- program constants
TicksPerSecond == 2
\* time.sleep(1) of _locate_image and time.sleep(0.5) of verify_image_displayed
LocateSleep == 2
VerifySleep == 1
\* verify_timeout * 2 of the second verification
RetryFactor == 2

\* ------------------------------------------------------ environment
\* The screen and the template image (both templates have this size).
ScreenSize == [width |-> 3, height |-> 2]
ImageSize == [width |-> 2, height |-> 2]
\* The windows the enumeration service may report for the title, and the
\* lists it may return (the first window of the list is the one used).
WinA == [left |-> 0, top |-> 0, width |-> 2, height |-> 2]
WinB == [left |-> 1, top |-> 0, width |-> 2, height |-> 2]
WindowLists == {<<>>, <<WinA>>, <<WinB, WinA>>}
\* The (x_offset, y_offset) arguments tried.
OffsetPairs == {<<0, 0>>, <<-1, 2>>}
None == <<>>

Timeouts == -1 .. MaxTimeout
VerifyTimeouts == -1 .. MaxVerifyTimeout

VARIABLES
    \* arguments of find_image_and_click ("" stands for an absent or empty
    \* window_title / verify_image: both are falsy)
    timeout, x_offset, y_offset, fail_silently, window_title, verify_image,
    verify_timeout,
    \* environment: what getWindowsWithTitle(window_title) returns (the empty
    \* list when there is no title: the service is not called), whether the image file
    \* exists, and whether the locate service signals a miss by raising
    \* ImageNotFoundException (TRUE) or by returning None (FALSE)
    windows, fileExists, missRaises,
    \* the longest time, in ticks, a call of the locate service takes in this
    \* run (0: the clock advances only through the sleeps)
    callLimit,
    \* time.time() - start_time of the polling loop that is running, in ticks
    elapsed,
    \* control and locals of find_image_and_click and its helpers
    pc, window, region, location, center, retry_location,
    \* locals of the running verify_image_displayed call
    v_timeout, v_call, verify_result,
    \* the exception in flight or raised, the last error-level log message,
    \* and how the call ended
    exc, logged, outcome,
    \* observations of the service calls
    clicks, activated, locateDone, locateCalls, mainPolls, retryLocates,
    retryRegion, verifyPolls, firstVerify, sawMatch, lateVerifyPoll,
    \* the last service call made and how it ended, the value lastCall had
    \* when each click was issued, and whether the window enumeration was called
    lastCall, clickAfter, enumerated

args == <<timeout, x_offset, y_offset, fail_silently, window_title,
          verify_image, verify_timeout>>
env == <<windows, fileExists, missRaises, callLimit>>
mainloc == <<location, locateDone, mainPolls>>
vlocals == <<v_timeout, v_call, verify_result>>
vobs == <<verifyPolls, sawMatch, lateVerifyPoll>>
retry == <<retry_location, retryLocates, retryRegion>>
ends == <<exc, logged, outcome>>
order == <<lastCall, clickAfter>>
vars == <<args, env, elapsed, pc, window, activated, region, mainloc, center,
          clicks, locateCalls, vlocals, vobs, firstVerify, retry, ends,
          order, enumerated>>

\* ---------------------------------------------------------- helpers
\* pyautogui.center(box)
Center(box) == <<box[1] + box[3] \div 2, box[2] + box[4] \div 2>>

\* faulty variant: the click forgets the offsets
ClickPointNoOffset(c) == <<c[1], c[2]>>

\* the arguments of pyautogui.click(x + x_offset, y + y_offset)
ClickPoint(c) == <<c[1] + x_offset, c[2] + y_offset>>

\* faulty variant: the window is ignored and the whole screen is searched
GetSearchRegionScreen(w) == <<0, 0, ScreenSize.width, ScreenSize.height>>

\* _get_search_region(window)
GetSearchRegion(w) ==
    IF w # None
    THEN <<w.left, w.top, w.width, w.height>>
    ELSE <<0, 0, ScreenSize.width, ScreenSize.height>>

\* The rectangles locateOnScreen may report when it searches reg (None: the
\* whole screen): the placements of the template inside reg and the screen.
MatchesIn(reg) ==
    LET r == IF reg = None THEN <<0, 0, ScreenSize.width, ScreenSize.height>>
             ELSE reg
    IN {<<l, t, ImageSize.width, ImageSize.height>> :
          l \in {a \in 0 .. ScreenSize.width - ImageSize.width :
                   r[1] <= a /\ a + ImageSize.width <= r[1] + r[3]},
          t \in {b \in 0 .. ScreenSize.height - ImageSize.height :
                   r[2] <= b /\ b + ImageSize.height <= r[2] + r[4]}}

\* the region argument of the retry's locateOnScreen call: none is passed
RetrySearchRegion(reg) == None

\* faulty variant: the loop condition never ends the loop
WithinTimeoutAlways(el, tmo) == TRUE

\* faulty variant: the loop condition admits the instant the timeout is reached
WithinTimeoutInclusive(el, tmo) == el <= tmo * TicksPerSecond

\* "time.time() - start_time < timeout", the loop condition of both loops
WithinTimeout(el, tmo) == el < tmo * TicksPerSecond

\* faulty variant: every result is taken for a miss
NotFoundAlways(loc) == TRUE

\* "not location", "not verify_result"
NotFound(loc) == loc = None

\* faulty variant: the flag is ignored and the failure always raises
RaisesAlways(silent) == TRUE

\* "if not fail_silently: raise ... / return None"
Raises(silent) == ~silent

Pending == [kind |-> "pending", value |-> None]
Returned(v) == [kind |-> IF v = None THEN "none" ELSE "pair", value |-> v]
Raised(e) == [kind |-> "raised", value |-> e]

\* ------------------------------------------------------------- Init
\* The state at the call, but for the speed of the locate service.
AtCall ==
    /\ timeout \in Timeouts
    /\ \E o \in OffsetPairs : x_offset = o[1] /\ y_offset = o[2]
    /\ fail_silently \in BOOLEAN
    /\ window_title \in {"", "Explorer"}
    /\ verify_image \in {"", "disk_e.png"}
    /\ verify_timeout \in VerifyTimeouts
    /\ windows \in IF window_title = "" THEN {<<>>} ELSE WindowLists
    /\ fileExists \in BOOLEAN
    /\ missRaises \in BOOLEAN
    /\ elapsed = 0
    /\ pc = "start"
    /\ window = None
    /\ activated = FALSE
    /\ region = None
    /\ location = None
    /\ locateDone = FALSE
    /\ mainPolls = 0
    /\ center = None
    /\ clicks = <<>>
    /\ locateCalls = 0
    /\ v_timeout = 0
    /\ v_call = 0
    /\ verify_result = FALSE
    /\ verifyPolls = 0
    /\ sawMatch = FALSE
    /\ lateVerifyPoll = FALSE
    /\ firstVerify = "none"
    /\ retry_location = None
    /\ retryLocates = 0
    /\ retryRegion = None
    /\ exc = ""
    /\ logged = ""
    /\ outcome = Pending
    /\ lastCall = "none"
    /\ clickAfter = <<>>
    /\ enumerated = FALSE

Init == AtCall /\ callLimit = MaxCallTime

\* The same, with a locate service that takes no time.
InitSleepOnly == AtCall /\ callLimit = 0

\* ---------------------------------------------------------- actions
\* An exception raised inside the try block of find_image_and_click.
Throw(e, msg) ==
    /\ exc' = e
    /\ logged' = msg
    /\ pc' = "except"
    /\ UNCHANGED outcome

\* A failure that logs msg and then raises RuntimeError or returns None.
FailPerFlag(msg) ==
    IF Raises(fail_silently)
    THEN Throw("RuntimeError", msg)
    ELSE /\ logged' = msg
         /\ outcome' = Returned(None)
         /\ pc' = "done"
         /\ UNCHANGED exc

Return(v) ==
    /\ outcome' = Returned(v)
    /\ pc' = "done"
    /\ UNCHANGED <<exc, logged>>

\* faulty variant: an empty window list is not checked, the search goes on without
\* a window
GetTargetWindowUnchecked ==
    /\ pc = "start"
    /\ IF window_title = "" \/ windows = <<>>
       THEN /\ pc' = "region"
            /\ UNCHANGED <<window, activated, ends>>
       ELSE /\ window' = windows[1]
            /\ activated' = TRUE
            /\ pc' = "region"
            /\ UNCHANGED ends
    /\ enumerated' = (window_title # "")
    /\ UNCHANGED <<args, env, order, elapsed, region, mainloc, center, clicks,
                   locateCalls, vlocals, vobs, firstVerify, retry>>

\* line 40 and _get_target_window
GetTargetWindow ==
    /\ pc = "start"
    /\ IF window_title = ""
       THEN /\ pc' = "region"
            /\ UNCHANGED <<window, activated, ends>>
       ELSE IF windows = <<>>
       THEN /\ Throw("ValueError", "window_not_found")
            /\ UNCHANGED <<window, activated>>
       ELSE /\ window' = windows[1]
            /\ activated' = TRUE
            /\ pc' = "region"
            /\ UNCHANGED ends
    /\ enumerated' = (window_title # "")
    /\ UNCHANGED <<args, env, order, elapsed, region, mainloc, center, clicks,
                   locateCalls, vlocals, vobs, firstVerify, retry>>

\* lines 41-44: the search region (the path join changes no state)
SearchRegion ==
    /\ pc = "region"
    /\ region' = GetSearchRegion(window)
    /\ pc' = "locate_enter"
    /\ UNCHANGED <<args, env, order, enumerated, elapsed, window, activated, mainloc, center, clicks,
                   locateCalls, vlocals, vobs, firstVerify, retry, ends>>

\* faulty variant: the polling starts without the check of the file
LocateEnterUnchecked ==
    /\ pc = "locate_enter"
    /\ elapsed' = 0
    /\ pc' = "locate_test"
    /\ UNCHANGED <<args, env, order, enumerated, window, activated, region,
                   mainloc, center, clicks, locateCalls, vlocals, vobs,
                   firstVerify, retry, ends>>

\* _locate_image, lines 108-112: the file check and the start of the clock
LocateEnter ==
    /\ pc = "locate_enter"
    /\ IF ~fileExists
       THEN /\ Throw("FileNotFoundError", "file_missing")
            /\ UNCHANGED elapsed
       ELSE /\ elapsed' = 0
            /\ pc' = "locate_test"
            /\ UNCHANGED ends
    /\ UNCHANGED <<args, env, order, enumerated, window, activated, region, mainloc, center,
                   clicks, locateCalls, vlocals, vobs, firstVerify, retry>>

\* _locate_image, lines 114 and 121: the loop condition
LocateTest ==
    /\ pc = "locate_test"
    /\ IF WithinTimeout(elapsed, timeout)
       THEN /\ pc' = "locate_poll"
            /\ UNCHANGED <<location, locateDone>>
       ELSE /\ location' = None
            /\ locateDone' = TRUE
            /\ pc' = "located"
    /\ UNCHANGED <<args, env, order, enumerated, elapsed, window, activated, region,
                   mainPolls, center, clicks, locateCalls, vlocals, vobs,
                   firstVerify, retry, ends>>

\* _locate_image, lines 115-120: one call of locateOnScreen on the region.
\* Whatever the call returns is returned; only the exception is retried.
LocatePoll ==
    /\ pc = "locate_poll"
    /\ mainPolls' = mainPolls + 1
    /\ locateCalls' = locateCalls + 1
    /\ \E d \in 0 .. callLimit :
         \/ \E m \in MatchesIn(region) :
              /\ location' = m
              /\ lastCall' = "locate_match"
              /\ locateDone' = TRUE
              /\ elapsed' = elapsed + d
              /\ pc' = "located"
         \/ /\ ~missRaises
            /\ location' = None
            /\ lastCall' = "locate_miss"
            /\ locateDone' = TRUE
            /\ elapsed' = elapsed + d
            /\ pc' = "located"
         \/ /\ missRaises
            /\ elapsed' = elapsed + d + LocateSleep
            /\ pc' = "locate_test"
            /\ lastCall' = "locate_miss"
            /\ UNCHANGED <<location, locateDone>>
    /\ UNCHANGED <<args, env, clickAfter, enumerated, window, activated, region, center,
                   clicks, vlocals, vobs, firstVerify, retry, ends>>

\* lines 48-53 and _handle_failure
AfterLocate ==
    /\ pc = "located"
    /\ IF NotFound(location)
       THEN /\ FailPerFlag("locate_timeout")
            /\ UNCHANGED center
       ELSE /\ center' = Center(location)
            /\ pc' = "click"
            /\ UNCHANGED ends
    /\ UNCHANGED <<args, env, order, enumerated, elapsed, window, activated, region, mainloc, clicks,
                   locateCalls, vlocals, vobs, firstVerify, retry>>

\* lines 56-71: the click, then the verification or the return
Click ==
    /\ pc = "click"
    /\ clicks' = Append(clicks, ClickPoint(center))
    /\ clickAfter' = Append(clickAfter, lastCall)
    /\ lastCall' = "click"
    /\ IF verify_image # ""
       THEN /\ v_call' = 1
            /\ v_timeout' = verify_timeout
            /\ pc' = "verify_enter"
            /\ UNCHANGED <<verify_result, ends>>
       ELSE /\ Return(center)
            /\ UNCHANGED vlocals
    /\ UNCHANGED <<args, env, enumerated, elapsed, window, activated, region, mainloc, center,
                   locateCalls, vobs, firstVerify, retry>>

\* verify_image_displayed, lines 186-188
VerifyEnter ==
    /\ pc = "verify_enter"
    /\ elapsed' = 0
    /\ verifyPolls' = 0
    /\ sawMatch' = FALSE
    /\ pc' = "verify_test"
    /\ UNCHANGED <<args, env, order, enumerated, window, activated, region, mainloc, center,
                   clicks, locateCalls, vlocals, lateVerifyPoll, firstVerify,
                   retry, ends>>

\* verify_image_displayed, lines 189 and 200-201: the loop condition
VerifyTest ==
    /\ pc = "verify_test"
    /\ IF WithinTimeout(elapsed, v_timeout)
       THEN /\ pc' = "verify_poll"
            /\ UNCHANGED verify_result
       ELSE /\ verify_result' = FALSE
            /\ pc' = "verified"
    /\ UNCHANGED <<args, env, order, enumerated, elapsed, window, activated, region, mainloc, center,
                   clicks, locateCalls, v_timeout, v_call, vobs, firstVerify,
                   retry, ends>>

\* verify_image_displayed, lines 190-198: one call of locateOnScreen on the
\* whole screen; a miss of either kind is followed by the sleep.
VerifyPoll ==
    /\ pc = "verify_poll"
    /\ verifyPolls' = verifyPolls + 1
    /\ locateCalls' = locateCalls + 1
    /\ lateVerifyPoll' =
         (lateVerifyPoll \/ ~(elapsed < v_timeout * TicksPerSecond))
    /\ \E d \in 0 .. callLimit :
         \/ /\ MatchesIn(None) # {}
            /\ sawMatch' = TRUE
            /\ lastCall' = "verify_match"
            /\ verify_result' = TRUE
            /\ elapsed' = elapsed + d
            /\ pc' = "verified"
         \/ /\ elapsed' = elapsed + d + VerifySleep
            /\ pc' = "verify_test"
            /\ lastCall' = "verify_miss"
            /\ UNCHANGED <<sawMatch, verify_result>>
    /\ UNCHANGED <<args, env, clickAfter, enumerated, window, activated, region, mainloc, center,
                   clicks, v_timeout, v_call, firstVerify, retry, ends>>

\* faulty variant: a failed first verification clicks again at the first
\* match without locating the image again
AfterFirstVerifyClickAgain ==
    /\ pc = "verified"
    /\ v_call = 1
    /\ IF NotFound(IF verify_result THEN <<TRUE>> ELSE None)
       THEN /\ firstVerify' = "failed"
            /\ retry_location' = location
            /\ pc' = "retry_click"
            /\ UNCHANGED <<ends, retryLocates, retryRegion>>
       ELSE /\ firstVerify' = "passed"
            /\ Return(center)
            /\ UNCHANGED retry
    /\ UNCHANGED <<args, env, order, enumerated, elapsed, window, activated,
                   region, mainloc, center, clicks, locateCalls, vlocals, vobs>>

\* _handle_verification, lines 144-147 and 175-176, after the first
\* verification
AfterFirstVerify ==
    /\ pc = "verified"
    /\ v_call = 1
    /\ IF NotFound(IF verify_result THEN <<TRUE>> ELSE None)
       THEN /\ firstVerify' = "failed"
            /\ pc' = "retry_locate"
            /\ UNCHANGED ends
       ELSE /\ firstVerify' = "passed"
            /\ Return(center)
    /\ UNCHANGED <<args, env, order, enumerated, elapsed, window, activated, region, mainloc, center,
                   clicks, locateCalls, vlocals, vobs, retry>>

\* _handle_verification, lines 148-152 and 168-173: the one retry locate
\* (no loop is timing it, so the time it takes is read by nobody)
RetryLocate ==
    /\ pc = "retry_locate"
    /\ retryLocates' = retryLocates + 1
    /\ locateCalls' = locateCalls + 1
    /\ retryRegion' = RetrySearchRegion(region)
    /\ \/ \E m \in MatchesIn(RetrySearchRegion(region)) :
            /\ retry_location' = m
            /\ lastCall' = "locate_match"
            /\ pc' = "retry_click"
            /\ UNCHANGED ends
       \/ /\ missRaises
          /\ Throw("ImageNotFoundException", "image_not_found_exception")
          /\ lastCall' = "locate_miss"
          /\ UNCHANGED retry_location
       \/ /\ ~missRaises
          /\ FailPerFlag("retry_locate_failed")
          /\ lastCall' = "locate_miss"
          /\ UNCHANGED retry_location
    /\ UNCHANGED <<args, env, clickAfter, enumerated, elapsed, window, activated, region, mainloc, center,
                   clicks, vlocals, vobs, firstVerify>>

\* _handle_verification, lines 153-160: the retry click and the second,
\* longer verification
RetryClick ==
    /\ pc = "retry_click"
    /\ clicks' = Append(clicks, ClickPoint(Center(retry_location)))
    /\ clickAfter' = Append(clickAfter, lastCall)
    /\ lastCall' = "click"
    /\ v_call' = 2
    /\ v_timeout' = verify_timeout * RetryFactor
    /\ pc' = "verify_enter"
    /\ UNCHANGED <<args, env, enumerated, elapsed, window, activated, region, mainloc, center,
                   locateCalls, verify_result, vobs, firstVerify, retry, ends>>

\* faulty variant: a failed second verification retries again
AfterSecondVerifyLoop ==
    /\ pc = "verified"
    /\ v_call = 2
    /\ IF NotFound(IF verify_result THEN <<TRUE>> ELSE None)
       THEN /\ pc' = "retry_locate"
            /\ UNCHANGED ends
       ELSE Return(center)
    /\ UNCHANGED <<args, env, order, enumerated, elapsed, window, activated, region, mainloc,
                   center, clicks, locateCalls, vlocals, vobs, firstVerify,
                   retry>>

\* faulty variant: after a successful retry the retry match's center is
\* returned
AfterSecondVerifyRetryCenter ==
    /\ pc = "verified"
    /\ v_call = 2
    /\ IF NotFound(IF verify_result THEN <<TRUE>> ELSE None)
       THEN FailPerFlag("second_verify_failed")
       ELSE Return(Center(retry_location))
    /\ UNCHANGED <<args, env, order, enumerated, elapsed, window, activated,
                   region, mainloc, center, clicks, locateCalls, vlocals, vobs,
                   firstVerify, retry>>

\* _handle_verification, lines 162-167 and 175-176, after the second
\* verification
AfterSecondVerify ==
    /\ pc = "verified"
    /\ v_call = 2
    /\ IF NotFound(IF verify_result THEN <<TRUE>> ELSE None)
       THEN FailPerFlag("second_verify_failed")
       ELSE Return(center)
    /\ UNCHANGED <<args, env, order, enumerated, elapsed, window, activated, region, mainloc, center,
                   clicks, locateCalls, vlocals, vobs, firstVerify, retry>>

\* faulty variant: the handler re-raises whatever the flag says
ExceptHandlerReraise ==
    /\ pc = "except"
    /\ outcome' = Raised(exc)
    /\ pc' = "done"
    /\ UNCHANGED <<args, env, order, enumerated, elapsed, window, activated, region, mainloc,
                   center, clicks, locateCalls, vlocals, vobs, firstVerify,
                   retry, exc, logged>>

\* lines 73-77: the handler of every Exception of the try block
ExceptHandler ==
    /\ pc = "except"
    /\ outcome' = IF Raises(fail_silently) THEN Raised(exc) ELSE Returned(None)
    /\ pc' = "done"
    /\ UNCHANGED <<args, env, order, enumerated, elapsed, window, activated, region, mainloc, center,
                   clicks, locateCalls, vlocals, vobs, firstVerify, retry,
                   exc, logged>>

Next ==
    \/ GetTargetWindow
    \/ SearchRegion
    \/ LocateEnter
    \/ LocateTest
    \/ LocatePoll
    \/ AfterLocate
    \/ Click
    \/ VerifyEnter
    \/ VerifyTest
    \/ VerifyPoll
    \/ AfterFirstVerify
    \/ RetryLocate
    \/ RetryClick
    \/ AfterSecondVerify
    \/ ExceptHandler

Spec == Init /\ [][Next]_vars

\* The call under a clock that advances only through the loops' sleeps.
SpecSleepOnly == InitSleepOnly /\ [][Next]_vars

\* The call when every step that can be taken is taken: the program is
\* sequential, every service call returns and every sleep ends.
FairSpec == Init /\ [][Next]_vars /\ WF_vars(Next)

\* ------------------------------------------------------------ claims
\* The center of a rectangle and the outcome per the flag, written out
\* independently of the operators the actions use.
CenterOf(b) == <<b[1] + b[3] \div 2, b[2] + b[4] \div 2>>
FailsPerFlag(e) ==
    IF fail_silently
    THEN outcome = [kind |-> "none", value |-> None]
    ELSE outcome = [kind |-> "raised", value |-> e]
WholeScreen == <<0, 0, ScreenSize.width, ScreenSize.height>>
AreaOf(reg) == IF reg = None THEN WholeScreen ELSE reg

\* C1: without a verification image, a main locate that found a match is
\* followed by exactly one click, at the center of the match plus the
\* offsets, and the call returns the center of the match, whatever the
\* offsets and fail_silently.
C1_MatchClicksOnceAndReturnsCenter ==
    (verify_image = "" /\ locateDone /\ location # None) =>
        /\ Len(clicks) <= 1
        /\ pc = "done" =>
             /\ Len(clicks) = 1
             /\ clicks[1] = <<CenterOf(location)[1] + x_offset,
                              CenterOf(location)[2] + y_offset>>
             /\ outcome = [kind |-> "pair", value |-> CenterOf(location)]

C1_Witness ==
    /\ pc = "done"
    /\ verify_image = ""
    /\ location # None
    /\ mainPolls >= 2
    /\ x_offset # 0
    /\ window_title # ""
    /\ outcome.kind = "pair"

\* C2: when the main locate reports no match, no click is issued, no
\* verification is started, and the call ends by raising RuntimeError when
\* fail_silently is false and by returning None when it is true.
C2_ExhaustionFailsPerFlag ==
    (locateDone /\ location = None) =>
        /\ clicks = <<>>
        /\ v_call = 0
        /\ verifyPolls = 0
        /\ retryLocates = 0
        /\ pc \in {"located", "except", "done"}
        /\ pc = "done" => FailsPerFlag("RuntimeError")

C2_Witness ==
    /\ pc = "done"
    /\ locateDone
    /\ location = None
    /\ mainPolls >= 2
    /\ elapsed >= timeout * TicksPerSecond
    /\ fail_silently
    /\ outcome.kind = "none"

\* C3: within one call the retry locate of the original image runs once if
\* and only if the first verification returned False, never a second time,
\* and at most two clicks are issued.
C3_ExactlyOneRetry ==
    /\ retryLocates <= 1
    /\ Len(clicks) <= 2
    /\ retryLocates = 1 => firstVerify = "failed"
    /\ (firstVerify = "failed" /\ pc # "retry_locate") => retryLocates = 1

C3_Witness ==
    /\ pc = "done"
    /\ firstVerify = "failed"
    /\ retryLocates = 1
    /\ Len(clicks) = 2
    /\ v_call = 2
    /\ ~verify_result

\* C4: when the retry is exhausted (the first verification failed and then
\* the original image is not re-located or the second verification fails),
\* the call raises RuntimeError when fail_silently is false and returns None
\* when it is true, whichever way the locate service reports absence.
C4_RetryExhaustedFailsPerFlag ==
    (/\ pc = "done"
     /\ firstVerify = "failed"
     /\ \/ retry_location = None
        \/ (v_call = 2 /\ ~verify_result)) => FailsPerFlag("RuntimeError")

\* C5: with a window title for which no window is reported, no locate call
\* and no click is made, and the call ends by raising ValueError when
\* fail_silently is false and by returning None when it is true.
C5_WindowNotFound ==
    (window_title # "" /\ windows = <<>>) =>
        /\ locateCalls = 0
        /\ clicks = <<>>
        /\ ~activated
        /\ pc \in {"start", "except", "done"}
        /\ pc = "done" => FailsPerFlag("ValueError")

C5_Witness ==
    /\ pc = "done"
    /\ window_title # ""
    /\ windows = <<>>
    /\ ~fail_silently
    /\ outcome = [kind |-> "raised", value |-> "ValueError"]

\* What ended a failing call, read from the error message it logged.
Failing == outcome.kind \in {"raised", "none"}
ImageNotFoundKinds ==
    {"locate_timeout", "retry_locate_failed", "image_not_found_exception",
     "second_verify_failed"}

\* C6 as stated: every failing outcome (a raised exception, or None) is
\* either "image not found" or "window not found".
C6_TwoFailureKinds ==
    Failing => logged \in ImageNotFoundKinds \cup {"window_not_found"}

\* C6, amended: every failing outcome is of one of three kinds: an image was
\* not found (the main image by the main locate or by the retry locate, or
\* the verification image by the second verification), the named window was
\* not found, or the main image file does not exist; and the exception
\* raised, if any, is the one of that kind.
C6_ThreeFailureKinds ==
    Failing =>
        /\ \/ /\ logged = "locate_timeout"
              /\ locateDone /\ location = None
              /\ exc \in {"", "RuntimeError"}
           \/ /\ logged = "retry_locate_failed"
              /\ retryLocates = 1 /\ retry_location = None /\ ~missRaises
              /\ exc \in {"", "RuntimeError"}
           \/ /\ logged = "image_not_found_exception"
              /\ retryLocates = 1 /\ retry_location = None /\ missRaises
              /\ exc = "ImageNotFoundException"
           \/ /\ logged = "second_verify_failed"
              /\ v_call = 2 /\ ~verify_result /\ ~sawMatch
              /\ exc \in {"", "RuntimeError"}
           \/ /\ logged = "window_not_found"
              /\ window_title # "" /\ windows = <<>>
              /\ exc = "ValueError"
           \/ /\ logged = "file_missing"
              /\ ~fileExists
              /\ exc = "FileNotFoundError"
        /\ outcome.kind = "raised" => outcome.value = exc
        /\ (exc = "") = (fail_silently /\ logged \in ImageNotFoundKinds
                           \ {"image_not_found_exception"})

C6_Witness ==
    /\ pc = "done"
    /\ outcome = [kind |-> "raised", value |-> "FileNotFoundError"]
    /\ logged = "file_missing"
    /\ activated
    /\ locateCalls = 0

\* C7: with fail_silently true the call never raises: it returns None or a
\* coordinate pair, and a pair only after at least one click.
C7_SilentNeverRaises ==
    fail_silently =>
        /\ outcome.kind \in {"pending", "none", "pair"}
        /\ (pc = "done") = (outcome.kind # "pending")
        /\ outcome.kind = "pair" =>
             /\ Len(clicks) >= 1
             /\ outcome.value = center
             /\ Len(outcome.value) = 2

C7_Witness ==
    /\ fail_silently
    /\ pc = "done"
    /\ exc = "ImageNotFoundException"
    /\ outcome = [kind |-> "none", value |-> None]
    /\ Len(clicks) = 1

\* C8: the retry locate searches the same match region as the initial
\* locate did, so a retry match lies inside that region.
C8_RetrySearchesSameRegion ==
    retryLocates > 0 =>
        /\ AreaOf(retryRegion) = AreaOf(region)
        /\ retry_location # None => retry_location \in MatchesIn(region)

\* C9: verify_image_displayed returns a boolean and lets no exception of the
\* locate service out; it returns True exactly when a poll made while the
\* elapsed time was below the timeout reported a match, and False otherwise,
\* without any poll when the timeout is <= 0.
C9_VerifyReturnsWhetherSeen ==
    /\ verify_result \in BOOLEAN
    /\ ~lateVerifyPoll
    /\ pc \in {"verify_enter", "verify_test", "verify_poll", "verified"} =>
         exc = ""
    /\ pc = "verified" =>
         /\ verify_result = sawMatch
         /\ v_timeout <= 0 => (verifyPolls = 0 /\ ~verify_result)
         /\ ~verify_result => elapsed >= v_timeout * TicksPerSecond

C9_Witness ==
    /\ pc = "verified"
    /\ verify_result
    /\ verifyPolls >= 2
    /\ missRaises
    /\ v_call = 2

\* C10: _locate_image reports absence only once the time elapsed since its
\* start is at least the timeout, whether the locate service signals a miss
\* by raising or by returning nothing.
C10_AbsenceOnlyAfterTimeout ==
    (pc = "located" /\ location = None) =>
        elapsed >= timeout * TicksPerSecond

\* C11: within one call every click directly follows, with no other click
\* and no verification poll in between, a locate call on the original image
\* that returned a match; every verification poll comes after a click; and
\* no click is issued unless the main locate has succeeded.
C11_ClickDirectlyFollowsMatch ==
    /\ Len(clickAfter) = Len(clicks)
    /\ \A i \in 1 .. Len(clickAfter) : clickAfter[i] = "locate_match"
    /\ pc \in {"click", "retry_click"} => lastCall = "locate_match"
    /\ clicks # <<>> => (locateDone /\ location # None)
    /\ (\/ pc = "verify_poll"
        \/ verifyPolls > 0
        \/ lastCall \in {"verify_match", "verify_miss"}) => clicks # <<>>

C11_Witness ==
    /\ pc = "done"
    /\ Len(clicks) = 2
    /\ lastCall = "verify_match"
    /\ verifyPolls >= 2
    /\ mainPolls >= 2

\* The polls of a loop that reported a miss.
MainMisses == mainPolls - (IF location # None THEN 1 ELSE 0)
VerifyMisses == verifyPolls - (IF verify_result THEN 1 ELSE 0)

\* C12: under a clock that advances only through the sleeps, the main locate
\* sleeps 1 second after each miss and makes between 1 and timeout attempts
\* for a timeout > 0 (none for a timeout <= 0); a verification sleeps half a
\* second after each miss and makes at most 2 * timeout attempts; the second
\* verification runs with exactly twice the verify_timeout of the first,
\* which is strictly longer for every verify_timeout > 0.
C12_PollCounts ==
    /\ pc = "located" =>
         /\ elapsed = MainMisses * LocateSleep
         /\ timeout > 0 => (1 <= mainPolls /\ mainPolls <= timeout)
         /\ timeout <= 0 => mainPolls = 0
    /\ pc = "verified" =>
         /\ elapsed = VerifyMisses * VerifySleep
         /\ v_timeout > 0 => verifyPolls <= 2 * v_timeout
         /\ v_timeout <= 0 => verifyPolls = 0
    /\ v_call = 1 => v_timeout = verify_timeout
    /\ v_call = 2 =>
         /\ v_timeout = 2 * verify_timeout
         /\ verify_timeout > 0 => v_timeout > verify_timeout

\* C13: when the first verification fails and the retry succeeds, the call
\* returns the center of the first match, not that of the retry match, even
\* when the two differ; the retry click is at the retry match's center plus
\* the offsets.
C13_RetryReturnsFirstCenter ==
    (/\ pc = "done"
     /\ firstVerify = "failed"
     /\ retry_location # None
     /\ v_call = 2
     /\ verify_result) =>
        /\ outcome = [kind |-> "pair", value |-> CenterOf(location)]
        /\ Len(clicks) = 2
        /\ clicks[1] = <<CenterOf(location)[1] + x_offset,
                         CenterOf(location)[2] + y_offset>>
        /\ clicks[2] = <<CenterOf(retry_location)[1] + x_offset,
                         CenterOf(retry_location)[2] + y_offset>>

C13_Witness ==
    /\ pc = "done"
    /\ firstVerify = "failed"
    /\ v_call = 2
    /\ verify_result
    /\ retry_location # location
    /\ CenterOf(retry_location) # CenterOf(location)
    /\ outcome.kind = "pair"
    /\ x_offset # 0

WindowMissing == window_title # "" /\ windows = <<>>

\* C14 as stated: when the main image file does not exist the call makes no
\* locate call and no click and ends by raising FileNotFoundError, or by
\* returning None under fail_silently; the file is checked only after the
\* target window, if any, was activated.
C14_MissingFileFailsPerFlag ==
    ~fileExists =>
        /\ locateCalls = 0
        /\ clicks = <<>>
        /\ pc = "done" => FailsPerFlag("FileNotFoundError")
        /\ (pc = "locate_enter" /\ window_title # "") => activated

\* C14, amended: the same, provided the window named by the title, if any,
\* was found; when it was not, the call has already failed with ValueError
\* (or None) and the file is never checked.
C14_MissingFileAfterWindow ==
    ~fileExists =>
        /\ locateCalls = 0
        /\ clicks = <<>>
        /\ (pc = "done" /\ ~WindowMissing) => FailsPerFlag("FileNotFoundError")
        /\ (pc = "done" /\ WindowMissing) =>
             (FailsPerFlag("ValueError") /\ logged # "file_missing")
        /\ (pc = "locate_enter" \/ logged = "file_missing") =>
             /\ ~WindowMissing
             /\ window_title # "" => (activated /\ window = windows[1])

C14_Witness ==
    /\ pc = "done"
    /\ ~fileExists
    /\ window_title # ""
    /\ activated
    /\ ~fail_silently
    /\ outcome = [kind |-> "raised", value |-> "FileNotFoundError"]

\* The region the claim expects the main locate to search.
ExpectedRegion ==
    IF window_title # ""
    THEN <<windows[1].left, windows[1].top, windows[1].width,
           windows[1].height>>
    ELSE <<0, 0, ScreenSize.width, ScreenSize.height>>
Inside(box, reg) ==
    /\ reg[1] <= box[1] /\ box[1] + box[3] <= reg[1] + reg[3]
    /\ reg[2] <= box[2] /\ box[2] + box[4] <= reg[2] + reg[4]

\* C15: the main locate searches (left, top, width, height) of the first
\* window returned for the title when a title is supplied, and that window
\* is activated before the first locate call; without a title it searches
\* (0, 0, screen width, screen height) and no window is enumerated or
\* activated.
C15_MainSearchRegion ==
    /\ (pc \in {"locate_enter", "locate_test", "locate_poll"}
        \/ locateCalls > 0) =>
         /\ region = ExpectedRegion
         /\ window_title # "" =>
              (enumerated /\ activated /\ window = windows[1])
    /\ (locateDone /\ location # None) => Inside(location, ExpectedRegion)
    /\ window_title = "" => (~enumerated /\ ~activated /\ window = None)

C15_Witness ==
    /\ pc = "located"
    /\ window_title # ""
    /\ Len(windows) = 2
    /\ windows[1] # windows[2]
    /\ region = <<1, 0, 2, 2>>
    /\ location # None
    /\ mainPolls >= 2

Terminated == pc = "done" /\ outcome.kind \in {"pair", "none", "raised"}

\* C16: when every service call returns and every sleep advances the clock,
\* each call of find_image_and_click ends, with a coordinate pair, None or a
\* raised exception: neither loop polls once the elapsed time has reached
\* its timeout, and the retry locate is not repeated.
C16_Terminates ==
    /\ [](pc = "locate_poll" => elapsed < timeout * TicksPerSecond)
    /\ [](pc = "verify_poll" => elapsed < v_timeout * TicksPerSecond)
    /\ [](retryLocates <= 1)
    /\ <>Terminated

C16_Witness ==
    /\ Terminated
    /\ mainPolls >= 2
    /\ v_call = 2
    /\ verifyPolls >= 2
    /\ ~verify_result
====
